---- MODULE Spec2Model ----
(***************************************************************************)
(* Fan speed regulator of modules/fan/fan.c (P1_Fan_Control): tachometer   *)
(* edge interrupt, RPM conversion, median filter, PI controller and PWM    *)
(* compare register.                                                       *)
(*                                                                         *)
(* A uint32_t is a pair <<hi, lo>> of 16-bit halves (value hi*2^16 + lo),  *)
(* so that 32-bit wraparound is computed as the hardware computes it.      *)
(* The float state of the PI controller is kept exactly, as integers over  *)
(* a fixed denominator: f_esum in units of 1/EsumDen, the output in units  *)
(* of 1/OutDen percent.                                                    *)
(***************************************************************************)
EXTENDS Integers, Sequences, FiniteSets, TLC

(* ---------------------------------------------------------------------- *)
(* 32-bit unsigned arithmetic                                             *)
(* ---------------------------------------------------------------------- *)
Half == 2^16

U32(n) == <<(n \div Half) % Half, n % Half>>

Add32(a, b) == <<(a[1] + b[1] + ((a[2] + b[2]) \div Half)) % Half, (a[2] + b[2]) % Half>>

\* mutant: a subtraction that saturates at 0 instead of wrapping
Sub32_Saturating(a, b) ==
    IF a[1] < b[1] \/ (a[1] = b[1] /\ a[2] < b[2])
    THEN <<0, 0>>
    ELSE <<a[1] - b[1] - (IF a[2] < b[2] THEN 1 ELSE 0), (a[2] - b[2]) % Half>>

Sub32(a, b) == <<(a[1] - b[1] - (IF a[2] < b[2] THEN 1 ELSE 0)) % Half, (a[2] - b[2]) % Half>>

\* a > n for a small literal n (n < 2^16)
Gt32(a, n) == a[1] > 0 \/ a[2] > n

Zero32 == <<0, 0>>

\* 1000 * t modulo 2^32, for a millisecond count t (hi half may exceed 16 bits)
Mul1000(t) == <<(t[1] * 1000 + ((t[2] * 1000) \div Half)) % Half, (t[2] * 1000) % Half>>

\* n / d in uint32 arithmetic for a numerator n < 2^31 and a nonzero divisor d
UDiv(n, d) == IF d[1] > n \div Half THEN 0 ELSE n \div (d[1] * Half + d[2])

(* ---------------------------------------------------------------------- *)
(* Unwrapped time: a millisecond count <<hi, lo>> whose hi half is not    *)
(* reduced, and its 32-bit view as HAL_GetTick() returns it.              *)
(* ---------------------------------------------------------------------- *)
AddT(a, b) == <<a[1] + b[1] + ((a[2] + b[2]) \div Half), (a[2] + b[2]) % Half>>

SubT(a, b) == <<a[1] - b[1] - (IF a[2] < b[2] THEN 1 ELSE 0), (a[2] - b[2]) % Half>>

Wrap32(t) == <<t[1] % Half, t[2]>>

(* ---------------------------------------------------------------------- *)
(* Program constants                                                      *)
(* ---------------------------------------------------------------------- *)
FAN_TACHO_OUTPUT == 64

GPIO_PIN_5 == 32

FAN_MAX_RPM == 5000

StaleTimeoutMs == 1000

RpmNumerator == 60 * 1000000

PulsesPerRev == 2

KpNum == 4

KiNum == 3

TaNum == 2

GainDen == 100

\* f_esum is kept in units of 1/EsumDen (Ta = TaNum/GainDen = 1/EsumDen)
EsumDen == GainDen \div TaNum

\* the PI output is kept in units of 1/OutDen percent
OutDen == GainDen * EsumDen

TIM9_Period == 400 - 1

InitPulse == (400 \div 100) * 50

MEDIAN_SIZE == 3

GPIO_PIN_0 == 1

STOPWATCH_LAPS == 10

STOPWATCH_DEBOUNCE_MS == 50

\* TIM1 counts 10 kHz ticks: 10 of them in a millisecond
TIM1_TicksPerMs == 10

POTI_1 == 1

POTI_2 == 2

ADC_12_BIT_RESOLUTION == 4095

(* ---------------------------------------------------------------------- *)
(* Inputs and bounds                                                      *)
(* ---------------------------------------------------------------------- *)
\* number of events (time advances, tachometer edges, calls from the main
\* loop, repeated initialisations) in one behaviour
MaxEvents == 5

\* durations between events: [ms |-> unwrapped milliseconds, us |-> microseconds]
D_6ms == [ms |-> <<0, 6>>, us |-> 0]

D_1s == [ms |-> <<0, 1000>>, us |-> 0]

\* 2^31 microseconds = 2147483 ms + 648 us
D_half == [ms |-> <<32, 50331>>, us |-> 648]

\* 2^32 milliseconds
D_wrap == [ms |-> <<65536, 0>>, us |-> 0]

Durations == {D_6ms, D_1s, D_half, D_wrap}

\* the smallest uint32_t that a float does not hold: 2^24 + 1
T_odd == 16777217

\* targets of the integration on its own: small and large errors of both signs
CtlTargets == {0, 30, 2500, FAN_MAX_RPM, T_odd}

\* filtered readings of the integration on its own
CtlReadings == {0, 30, 2500, FAN_MAX_RPM}

Targets == {0, 2500, FAN_MAX_RPM, T_odd}

Pins == {FAN_TACHO_OUTPUT, GPIO_PIN_5}

\* stopwatch: number of events (time advances, button interrupts) in one
\* behaviour, and the durations between them
MaxSwEvents == 6

S_49ms == <<0, 49>>

S_50ms == <<0, 50>>

S_1s == <<0, 1000>>

\* 2^32 milliseconds
S_wrap == <<65536, 0>>

S_59s == <<0, 59000>>

\* 65535 minutes and 59 seconds, in milliseconds
S_45d == <<59999, 64536>>

SwDurations == {S_49ms, S_50ms, S_1s, S_59s, S_45d, S_wrap}

\* a run of presses that fills the lap buffer: number of events and the
\* durations between them
MaxLapEvents == 24

LapDurations == {S_50ms}

SwPins == {GPIO_PIN_0, GPIO_PIN_5}

TimerHandles == {"stopwatch_timer", "other"}

\* potentiometers: the numbers passed, the values the two channels convert
\* to, and the results of the two polls
PotiNums == {0, POTI_1, POTI_2, 3, 255}

AdcValues == {0, 2048, ADC_12_BIT_RESOLUTION}

PollResults == {"HAL_OK", "HAL_ERROR", "HAL_TIMEOUT"}

\* samples fed to the median filter on its own, and how many of them
Samples == {0, 30, 2500, 5000}

MaxInserts == 5

\* even periods converted on their own: 2, 4, ... 2 * MaxHalfPeriod, and 2^30,
\* 2^31, 2^31 + 6000, 2^32 - 2
MaxHalfPeriod == 120

Periods == {<<0, 2 * k>> : k \in 1..MaxHalfPeriod}
             \cup {<<16384, 0>>, <<32768, 0>>, <<32768, 6000>>, <<65535, 65534>>}

VARIABLES
    ms_clock,             \* unwrapped HAL millisecond tick (uwTick = Wrap32(ms_clock))
    us_frac,              \* microseconds into the current millisecond
    n_events,             \* number of events so far
    TIM2_CNT,             \* free-running 1 MHz counter of TIM2
    CCR1,                 \* TIM9 channel 1 compare register
    g_u32_ticks_last,
    g_u32_time_diff,
    g_u32_cpu_ticks_now,
    g_u32_target_rpm,
    target_ret,           \* return value of the last fan_get_target_rpm
    f_esum,               \* integral, in units of 1/EsumDen
    f_error,              \* error of the last tick
    f_raw,                \* unclamped output of the last tick, units of 1/OutDen
    f_output,             \* clamped output of the last tick, units of 1/OutDen
    med_buf, med_idx, med_cnt,
    pc,                   \* position of the main-loop context
    caller,               \* who called fan_get_filtered_rpm: "tick" or "read"
    order,                \* operand of line 92 read first: "tick" or "marker"
    l_first,              \* value of that operand
    p_test,               \* g_u32_time_diff as read in line 96
    ret,                  \* return value of the last fan_get_filtered_rpm
    \* history
    h_target,             \* argument of the last fan_change_target_rpm
    h_last,               \* the samples inserted, oldest first, up to the last MEDIAN_SIZE
    \* the conversion of lines 96-101 on its own
    conv_p,               \* a period
    conv_rpm,             \* the sample computed for it (-1: the division trapped)
    conv_half,            \* the sample computed for half of it
    edge_ms,              \* unwrapped time of the last edge
    edge_seen,            \* an edge has been captured
    edge_us,              \* microseconds into the millisecond at the last edge
    init_since_edge,      \* fan_control_init has run since the last edge
    stale_at_call,        \* more than 1000 ms since the last edge when the call began
    fresh_at_call,        \* an edge had been captured at most 1000 ms before the call began
    edge_in_call,         \* an edge was captured during the call
    torn,                 \* an edge was captured between the call's shared reads
    ins_in_call,          \* median insertions of the last call
    wr_in_call,           \* compare register writes of the last call
    quiet,                \* nothing but reads since the last read completed
    sat_ticks,            \* ticks in a row that saturated high on the same error (up to 2)
    zero_ticks,           \* ticks in a row with error 0 (up to 2)
    \* stopwatch (modules/stopwatch/stopwatch.c, 08_Stopwatch)
    sw_ms,                \* unwrapped HAL millisecond tick of the stopwatch program
    sw_events,            \* number of events so far
    TIM1_CNT,             \* counter of TIM1, 10 kHz, 0..9999
    TIM1_running,         \* HAL_TIM_Base_Start_IT has started the timer
    TIM1_UIF,             \* an update interrupt of TIM1 is pending
    u16_stopwatch_current_in_seconds,
    u16_stopwatch_current_in_minutes,
    bool_stopwatch_timer_status,
    u8_stopwatch_lap_index,
    u16_stopwatch_lap_counter,
    u8_stopwatch_lap_added_index,
    bool_stopwatch_lap_added_flag,
    u32_stopwatch_last_button_tick,
    u16_stopwatch_laps_in_minutes,
    u16_stopwatch_laps_in_seconds,
    u16_stopwatch_laps_in_milliseconds,
    sw_pc,                \* position of the main loop of 08_Stopwatch
    lcd_lap,              \* the lap line last drawn: <<slot, count, min, sec, ms % 100>>
    h_accepted,           \* number of button presses accepted
    h_accept_ms,          \* unwrapped time of the last accepted press
    h_slot_lap,           \* per slot, the number of the lap it holds (-1: none)
    \* potentiometers (modules/potis/potis.c): the last call of potis_get_val
    poti_arg,             \* its argument poti_num
    adc_ch6, adc_ch7,     \* what channel 6 and channel 7 converted to
    adc_poll1, adc_poll2, \* what the two HAL_ADC_PollForConversion returned
    potis_ret,            \* its return value
    \* the integration of lines 120-132 on its own, over any run of ticks
    ctl_esum,             \* the integral, in units of 1/EsumDen
    ctl_error             \* error of the last tick

vars == <<ms_clock, us_frac, n_events, TIM2_CNT, CCR1, g_u32_ticks_last, g_u32_time_diff,
          g_u32_cpu_ticks_now, g_u32_target_rpm, f_esum, f_error, f_raw, f_output,
          med_buf, med_idx, med_cnt, pc, caller, order, l_first, p_test,
          ret, edge_ms, edge_seen, edge_us, init_since_edge, stale_at_call, fresh_at_call, edge_in_call, torn,
          ins_in_call, wr_in_call, quiet, sat_ticks, target_ret, h_target, h_last,
          conv_p, conv_rpm, conv_half, zero_ticks,
          sw_ms, sw_events, TIM1_CNT, TIM1_running, TIM1_UIF,
          u16_stopwatch_current_in_seconds, u16_stopwatch_current_in_minutes,
          bool_stopwatch_timer_status, u8_stopwatch_lap_index, u16_stopwatch_lap_counter,
          u8_stopwatch_lap_added_index, bool_stopwatch_lap_added_flag,
          u32_stopwatch_last_button_tick, u16_stopwatch_laps_in_minutes,
          u16_stopwatch_laps_in_seconds, u16_stopwatch_laps_in_milliseconds,
          sw_pc, lcd_lap, h_accepted, h_accept_ms, h_slot_lap,
          poti_arg, adc_ch6, adc_ch7, adc_poll1, adc_poll2, potis_ret,
          ctl_esum, ctl_error>>

clock_vars == <<ms_clock, us_frac, TIM2_CNT>>

isr_vars == <<g_u32_ticks_last, g_u32_time_diff, g_u32_cpu_ticks_now>>

pi_vars == <<f_esum, f_error, f_raw, f_output, CCR1, sat_ticks, zero_ticks>>

med_vars == <<med_buf, med_idx, med_cnt, h_last>>

hist_edge_vars == <<edge_ms, edge_seen, edge_us, init_since_edge>>

target_vars == <<g_u32_target_rpm, target_ret, h_target>>

conv_vars == <<conv_p, conv_rpm, conv_half>>

fan_vars == <<clock_vars, isr_vars, pi_vars, med_vars, hist_edge_vars, target_vars,
              n_events, pc, caller, order, l_first, p_test, ret,
              stale_at_call, fresh_at_call, edge_in_call, torn, ins_in_call, wr_in_call, quiet>>

sw_time_vars == <<u16_stopwatch_current_in_seconds, u16_stopwatch_current_in_minutes>>

sw_lap_vars == <<u8_stopwatch_lap_index, u16_stopwatch_lap_counter,
                 u8_stopwatch_lap_added_index, u16_stopwatch_laps_in_minutes,
                 u16_stopwatch_laps_in_seconds, u16_stopwatch_laps_in_milliseconds>>

\* what the button interrupt may write
sw_button_vars == <<sw_lap_vars, bool_stopwatch_timer_status, bool_stopwatch_lap_added_flag,
                    u32_stopwatch_last_button_tick, TIM1_running>>

sw_hist_vars == <<h_accepted, h_accept_ms, h_slot_lap>>

sw_vars == <<sw_ms, sw_events, TIM1_CNT, TIM1_UIF, sw_time_vars, sw_button_vars,
             sw_pc, lcd_lap, sw_hist_vars>>

potis_vars == <<poti_arg, adc_ch6, adc_ch7, adc_poll1, adc_poll2, potis_ret>>

ctl_vars == <<ctl_esum, ctl_error>>

\* what the fan regulator's own steps leave alone
other_vars == <<conv_vars, sw_vars, potis_vars, ctl_vars>>

\* what the stopwatch's steps leave alone
not_sw_vars == <<fan_vars, conv_vars, potis_vars, ctl_vars>>

\* what the conversion on its own leaves alone
not_conv_vars == <<fan_vars, sw_vars, potis_vars, ctl_vars>>

\* what potis_get_val leaves alone
not_potis_vars == <<fan_vars, conv_vars, sw_vars, ctl_vars>>

\* what the integration on its own leaves alone
not_ctl_vars == <<fan_vars, conv_vars, sw_vars, potis_vars>>

HAL_GetTick == Wrap32(ms_clock)

(* ---------------------------------------------------------------------- *)
(* Median filter: median_get_median(sample) inserts the sample into the   *)
(* circular window and returns the median of the samples held.            *)
(* ---------------------------------------------------------------------- *)
MedInsertBuf(buf, idx, x) == [buf EXCEPT ![idx + 1] = x]

MedNextIdx(idx) == (idx + 1) % MEDIAN_SIZE

MedNextCnt(cnt) == IF cnt < MEDIAN_SIZE THEN cnt + 1 ELSE MEDIAN_SIZE

MedianOf(buf, cnt) == SortSeq(SubSeq(buf, 1, cnt), LAMBDA a, b : a < b)[(cnt \div 2) + 1]

\* the last MEDIAN_SIZE elements of a sequence one longer at most
LastN(seq) == IF Len(seq) > MEDIAN_SIZE THEN Tail(seq) ELSE seq

\* mutant: the write cursor never advances
MedianInsert_Stuck(x) ==
    /\ med_buf' = MedInsertBuf(med_buf, med_idx, x)
    /\ med_idx' = med_idx
    /\ med_cnt' = MedNextCnt(med_cnt)
    /\ h_last' = LastN(Append(h_last, x))

\* insert(sample): the slot under the write cursor is overwritten, the cursor advances
MedianInsert(x) ==
    /\ med_buf' = MedInsertBuf(med_buf, med_idx, x)
    /\ med_idx' = MedNextIdx(med_idx)
    /\ med_cnt' = MedNextCnt(med_cnt)
    /\ h_last' = LastN(Append(h_last, x))

(* ---------------------------------------------------------------------- *)
(* fan_get_filtered_rpm, lines 92-103, as pure steps                      *)
(* ---------------------------------------------------------------------- *)
\* line 92: (HAL_GetTick() - g_u32_cpu_ticks_now) > 1000u
IsStale(tick, marker) == Gt32(Sub32(tick, marker), StaleTimeoutMs)

\* mutant: the zero test of line 96 is missing
PeriodIsZero_Never(p) == FALSE

\* line 96: g_u32_time_diff == 0u
PeriodIsZero(p) == p = Zero32

\* line 101: 2u * g_u32_time_diff, in 32 bits
Divisor(p) == Add32(p, p)

\* mutant: the quotient is one too large
RpmOf_OffByOne(d) == UDiv(RpmNumerator, d) + 1

\* line 100-101: (60u * 1000000ul) / divisor
RpmOf(d) == UDiv(RpmNumerator, d)

\* lines 96-101 for a stored period p: the sample, 0 for period 0; a zero
\* divisor traps (-1) or yields quotient 0
SampleOf(p, trap) ==
    IF PeriodIsZero(p) THEN 0
    ELSE IF Divisor(p) = Zero32 THEN (IF trap THEN -1 ELSE 0)
    ELSE RpmOf(Divisor(p))

\* p / 2 for a 32-bit p
Half32(p) == <<p[1] \div 2, (p[2] + (p[1] % 2) * Half) \div 2>>

(* ---------------------------------------------------------------------- *)
(* fan_update_pi_controller, lines 120-137                                *)
(* ---------------------------------------------------------------------- *)
OutMax == 100 * OutDen

\* spacing of the floats around n: 1 below 2^24, doubling with every further bit
RECURSIVE Ulp(_)
Ulp(n) == IF n < 2^24 THEN 1 ELSE 2 * Ulp(n \div 2)

\* (float)n for a uint32_t n < 2^31: the nearest float, ties to the even significand
FloatOf(n) ==
    LET u == Ulp(n)
        q == n \div u
        r == n % u
    IN IF 2 * r > u \/ (2 * r = u /\ q % 2 = 1) THEN (q + 1) * u ELSE q * u

\* line 120-121: (float)g_u32_target_rpm - (float)fan_get_filtered_rpm()
ErrorOf(target, rpm) == FloatOf(target) - FloatOf(rpm)

\* an error of this size puts the output beyond the clamp whatever the
\* integral is; f_raw is kept exactly for errors up to this size and at the
\* value of this size beyond it
ErrCap == 2 * FAN_MAX_RPM * GainDen

ErrClip(err) == IF err > ErrCap THEN ErrCap ELSE IF err < -ErrCap THEN -ErrCap ELSE err

\* mutant: a proportional controller, the integral term is left out
RawOutput_NoIntegral(err, esum) == KpNum * ErrClip(err) * EsumDen

\* line 123-124: Kp * error + Ki * esum, in units of 1/OutDen
RawOutput(err, esum) == KpNum * ErrClip(err) * EsumDen + KiNum * esum

\* mutant: the upper clamp of line 126-127 is missing
ClampOutput_NoUpper(raw) == IF raw < 0 THEN 0 ELSE raw

\* mutant: the lower clamp of line 128-129 is missing
ClampOutput_NoLower(raw) == IF raw > OutMax THEN OutMax ELSE raw

\* line 126-130: the clamp
ClampOutput(raw) == IF raw > OutMax THEN OutMax ELSE IF raw < 0 THEN 0 ELSE raw

\* mutant: the integral is frozen only when the output saturates high
NextEsum_NoLowerFreeze(esum, err, raw) == IF raw > OutMax THEN esum ELSE esum + err

\* mutant: the integral never advances
NextEsum_Never(esum, err, raw) == esum

\* mutant: the integral advances in every branch
NextEsum_Always(esum, err, raw) == esum + err

\* line 126-132: the integral advances only in the unclamped branch
NextEsum(esum, err, raw) == IF raw > OutMax \/ raw < 0 THEN esum ELSE esum + err

\* mutant: the percentage itself is written, not scaled by the period length
CompareValue_Percent(out) == out \div OutDen

\* line 134-137: (Period + 1) * f_output / 100, truncated to the register
CompareValue(out) == ((TIM9_Period + 1) * out) \div (100 * OutDen)

(* ---------------------------------------------------------------------- *)
(* Initial state: power-on, after HAL_Init and fan_control_init           *)
(* ---------------------------------------------------------------------- *)
Init ==
    /\ ms_clock = <<0, 0>> /\ us_frac = 0 /\ n_events = 0
    /\ TIM2_CNT = Zero32
    /\ CCR1 = InitPulse
    /\ g_u32_ticks_last = Zero32 /\ g_u32_time_diff = Zero32 /\ g_u32_cpu_ticks_now = Zero32
    /\ g_u32_target_rpm = 0 /\ target_ret = 0 /\ h_target = 0
    /\ f_esum = 0 /\ f_error = 0 /\ f_raw = 0 /\ f_output = 0 /\ sat_ticks = 0 /\ zero_ticks = 0
    /\ med_buf = [i \in 1..MEDIAN_SIZE |-> 0] /\ med_idx = 0 /\ med_cnt = 0
    /\ h_last = <<>>
    /\ conv_p = Zero32 /\ conv_rpm = 0 /\ conv_half = 0
    /\ ctl_esum = 0 /\ ctl_error = 0
    /\ sw_ms = <<0, 0>> /\ sw_events = 0
    /\ TIM1_CNT = 0 /\ TIM1_running = FALSE /\ TIM1_UIF = FALSE
    /\ u16_stopwatch_current_in_seconds = 0 /\ u16_stopwatch_current_in_minutes = 0
    /\ bool_stopwatch_timer_status = FALSE
    /\ u8_stopwatch_lap_index = 0 /\ u16_stopwatch_lap_counter = 0
    /\ u8_stopwatch_lap_added_index = 0 /\ bool_stopwatch_lap_added_flag = FALSE
    /\ u32_stopwatch_last_button_tick = Zero32
    /\ u16_stopwatch_laps_in_minutes = [i \in 0..(STOPWATCH_LAPS - 1) |-> 0]
    /\ u16_stopwatch_laps_in_seconds = [i \in 0..(STOPWATCH_LAPS - 1) |-> 0]
    /\ u16_stopwatch_laps_in_milliseconds = [i \in 0..(STOPWATCH_LAPS - 1) |-> 0]
    /\ sw_pc = "L64" /\ lcd_lap = <<>>
    /\ h_accepted = 0 /\ h_accept_ms = <<0, 0>>
    /\ h_slot_lap = [i \in 0..(STOPWATCH_LAPS - 1) |-> -1]
    /\ poti_arg = POTI_1 /\ adc_ch6 = 0 /\ adc_ch7 = 0
    /\ adc_poll1 = "HAL_OK" /\ adc_poll2 = "HAL_OK" /\ potis_ret = 0
    /\ pc = "main" /\ caller = "none" /\ order = "none"
    /\ l_first = Zero32 /\ p_test = Zero32
    /\ ret = 0
    /\ edge_ms = <<0, 0>> /\ edge_seen = FALSE
    /\ edge_us = 0 /\ init_since_edge = FALSE
    /\ stale_at_call = FALSE /\ edge_in_call = FALSE /\ torn = FALSE
    /\ fresh_at_call = FALSE
    /\ ins_in_call = 0 /\ wr_in_call = 0 /\ quiet = FALSE

(* ---------------------------------------------------------------------- *)
(* Hardware: time passes; the tachometer edge interrupt                   *)
(* ---------------------------------------------------------------------- *)
\* milliseconds since the last captured edge, unwrapped
ElapsedSinceEdge == SubT(ms_clock, edge_ms)

\* SysTick advances uwTick once a millisecond, TIM2 counts microseconds
Elapse(d) ==
    /\ pc # "HardFault"
    /\ n_events < MaxEvents
    /\ n_events' = n_events + 1
    /\ us_frac' = (us_frac + d.us) % 1000
    /\ ms_clock' = AddT(AddT(ms_clock, d.ms), <<0, (us_frac + d.us) \div 1000>>)
    /\ TIM2_CNT' = Add32(TIM2_CNT, Add32(Mul1000(d.ms), U32(d.us)))
    /\ quiet' = FALSE
    /\ UNCHANGED <<isr_vars, pi_vars, med_vars, hist_edge_vars,
                   target_vars, pc, caller, order, l_first, p_test, ret,
                   stale_at_call, fresh_at_call, edge_in_call, torn, ins_in_call, wr_in_call>>
    /\ UNCHANGED other_vars

\* the marker of line 92 has been read and the period of line 101 has not
BetweenSharedReads == (pc = "L92" /\ order = "marker") \/ pc \in {"L96", "L100"}

\* HAL_GPIO_EXTI_Callback(gpio_pin), lines 215-225
HAL_GPIO_EXTI_Callback(gpio_pin) ==
    /\ pc # "HardFault"
    /\ IF gpio_pin = FAN_TACHO_OUTPUT
       THEN /\ n_events < MaxEvents
            /\ n_events' = n_events + 1
            /\ g_u32_time_diff' = Sub32(TIM2_CNT, g_u32_ticks_last)
            /\ g_u32_ticks_last' = TIM2_CNT
            /\ g_u32_cpu_ticks_now' = HAL_GetTick
            /\ edge_ms' = ms_clock
            /\ edge_seen' = TRUE
            /\ edge_us' = us_frac
            /\ init_since_edge' = FALSE
            /\ edge_in_call' = (edge_in_call \/ pc # "main")
            /\ torn' = (torn \/ BetweenSharedReads)
            /\ quiet' = FALSE
       ELSE UNCHANGED <<isr_vars, hist_edge_vars, n_events, edge_in_call, torn, quiet>>
    /\ UNCHANGED <<clock_vars, pi_vars, med_vars, target_vars,
                   pc, caller, order, l_first, p_test, ret,
                   stale_at_call, fresh_at_call, ins_in_call, wr_in_call>>
    /\ UNCHANGED other_vars

(* ---------------------------------------------------------------------- *)
(* Main-loop context                                                      *)
(* ---------------------------------------------------------------------- *)
\* fan_control_init, lines 82-88: PWM timer configured and started with the
\* initial pulse, TIM2 initialised (counter cleared) and started
fan_control_init ==
    /\ pc = "main"
    /\ n_events < MaxEvents
    /\ n_events' = n_events + 1
    /\ CCR1' = InitPulse
    /\ TIM2_CNT' = Zero32
    /\ init_since_edge' = TRUE
    /\ quiet' = FALSE
    /\ UNCHANGED <<ms_clock, us_frac, isr_vars, med_vars,
                   edge_ms, edge_seen, edge_us, target_vars, f_esum, f_error, f_raw, f_output,
                   sat_ticks, zero_ticks,
                   pc, caller, order, l_first, p_test, ret,
                   stale_at_call, fresh_at_call, edge_in_call, torn, ins_in_call, wr_in_call>>
    /\ UNCHANGED other_vars

\* mutant: the setter clamps the target to the fan's rated maximum
fan_change_target_rpm_Clamped(target_rpm) ==
    /\ pc = "main"
    /\ g_u32_target_rpm' = IF target_rpm > FAN_MAX_RPM THEN FAN_MAX_RPM ELSE target_rpm
    /\ h_target' = target_rpm
    /\ UNCHANGED <<clock_vars, isr_vars, pi_vars, med_vars, hist_edge_vars, n_events,
                   target_ret, pc, caller, order, l_first, p_test, ret,
                   stale_at_call, fresh_at_call, edge_in_call, torn, ins_in_call, wr_in_call, quiet>>
    /\ UNCHANGED other_vars

\* fan_change_target_rpm, lines 106-109
fan_change_target_rpm(target_rpm) ==
    /\ pc = "main"
    /\ g_u32_target_rpm' = target_rpm
    /\ h_target' = target_rpm
    /\ UNCHANGED <<clock_vars, isr_vars, pi_vars, med_vars, hist_edge_vars, n_events,
                   target_ret, pc, caller, order, l_first, p_test, ret,
                   stale_at_call, fresh_at_call, edge_in_call, torn, ins_in_call, wr_in_call, quiet>>
    /\ UNCHANGED other_vars

\* fan_get_target_rpm, lines 111-114
fan_get_target_rpm ==
    /\ pc = "main"
    /\ n_events < MaxEvents
    /\ n_events' = n_events + 1
    /\ target_ret' = g_u32_target_rpm
    /\ UNCHANGED <<clock_vars, isr_vars, pi_vars, med_vars, hist_edge_vars,
                   g_u32_target_rpm, h_target, pc, caller, order, l_first, p_test, ret,
                   stale_at_call, fresh_at_call, edge_in_call, torn, ins_in_call, wr_in_call, quiet>>
    /\ UNCHANGED other_vars

\* mutant: the compare register is left alone when the measurement is 0
PIStep_SkipWriteOnZero(rpm) ==
    LET err == ErrorOf(g_u32_target_rpm, rpm)
        raw == RawOutput(err, f_esum)
    IN /\ f_error' = err
       /\ f_raw' = raw
       /\ f_output' = ClampOutput(raw)
       /\ f_esum' = NextEsum(f_esum, err, raw)
       /\ CCR1' = IF rpm = 0 THEN CCR1 ELSE CompareValue(ClampOutput(raw))
       /\ wr_in_call' = IF rpm = 0 THEN wr_in_call ELSE wr_in_call + 1
       /\ sat_ticks' = sat_ticks
       /\ zero_ticks' = zero_ticks

\* the PI step of fan_update_pi_controller on the value fan_get_filtered_rpm returned
PIStep(rpm) ==
    LET err == ErrorOf(g_u32_target_rpm, rpm)
        raw == RawOutput(err, f_esum)
    IN /\ f_error' = err
       /\ f_raw' = raw
       /\ f_output' = ClampOutput(raw)
       /\ f_esum' = NextEsum(f_esum, err, raw)
       /\ CCR1' = CompareValue(ClampOutput(raw))
       /\ wr_in_call' = wr_in_call + 1
       /\ sat_ticks' = IF raw > OutMax
                        THEN (IF f_raw > OutMax /\ err = f_error THEN 2 ELSE 1)
                        ELSE 0
       /\ zero_ticks' = IF err = 0 THEN (IF zero_ticks >= 1 THEN 2 ELSE 1) ELSE 0

\* fan_get_filtered_rpm returns v; the caller continues to its end
Return(v) ==
    /\ pc' = "main"
    /\ caller' = "none"
    /\ ret' = v
    /\ p_test' = Zero32
    /\ torn' = FALSE
    /\ IF caller = "tick"
       THEN PIStep(v) /\ quiet' = FALSE
       ELSE UNCHANGED <<pi_vars, wr_in_call>> /\ quiet' = TRUE

\* entry of fan_update_pi_controller (c = "tick") or of the display's
\* fan_get_filtered_rpm (c = "read"), up to the first operand of line 92
Enter(c, o) ==
    /\ pc = "main"
    /\ n_events < MaxEvents
    /\ n_events' = n_events + 1
    /\ pc' = "L92"
    /\ caller' = c
    /\ order' = o
    /\ l_first' = IF o = "tick" THEN HAL_GetTick ELSE g_u32_cpu_ticks_now
    /\ stale_at_call' = (edge_seen /\ Gt32(ElapsedSinceEdge, StaleTimeoutMs))
    /\ fresh_at_call' = (edge_seen /\ ~Gt32(ElapsedSinceEdge, StaleTimeoutMs))
    /\ edge_in_call' = FALSE
    /\ ins_in_call' = 0 /\ wr_in_call' = 0
    /\ quiet' = (quiet /\ c = "read")
    /\ UNCHANGED <<clock_vars, isr_vars, pi_vars, med_vars, hist_edge_vars,
                   target_vars, ret, p_test, torn>>
    /\ UNCHANGED other_vars

fan_update_pi_controller == \E o \in {"tick", "marker"} : Enter("tick", o)

fan_get_filtered_rpm == \E o \in {"tick", "marker"} : Enter("read", o)

\* mutant: the stale branch of line 92 clears the stored period
Line92_ClearsPeriod ==
    /\ pc = "L92"
    /\ order' = "none" /\ l_first' = Zero32
    /\ IF IsStale(IF order = "tick" THEN l_first ELSE HAL_GetTick,
                  IF order = "marker" THEN l_first ELSE g_u32_cpu_ticks_now)
       THEN Return(0) /\ g_u32_time_diff' = Zero32 /\ UNCHANGED <<g_u32_ticks_last, g_u32_cpu_ticks_now>>
       ELSE pc' = "L96" /\ UNCHANGED <<isr_vars, caller, ret, p_test, torn, pi_vars, wr_in_call, quiet>>
    /\ UNCHANGED <<clock_vars, med_vars, hist_edge_vars, target_vars,
                   n_events, stale_at_call, fresh_at_call, edge_in_call, ins_in_call>>
    /\ UNCHANGED other_vars

\* line 92: the second operand, the comparison and the early return
Line92 ==
    /\ pc = "L92"
    /\ order' = "none" /\ l_first' = Zero32
    /\ IF IsStale(IF order = "tick" THEN l_first ELSE HAL_GetTick,
                  IF order = "marker" THEN l_first ELSE g_u32_cpu_ticks_now)
       THEN Return(0)
       ELSE pc' = "L96" /\ UNCHANGED <<caller, ret, p_test, torn, pi_vars, wr_in_call, quiet>>
    /\ UNCHANGED <<clock_vars, isr_vars, med_vars, hist_edge_vars, target_vars,
                   n_events, stale_at_call, fresh_at_call, edge_in_call, ins_in_call>>
    /\ UNCHANGED other_vars

\* line 96: the zero test and the early return
Line96 ==
    /\ pc = "L96"
    /\ IF PeriodIsZero(g_u32_time_diff)
       THEN Return(0)
       ELSE /\ pc' = "L100"
            /\ p_test' = g_u32_time_diff
            /\ UNCHANGED <<caller, ret, torn, pi_vars, wr_in_call, quiet>>
    /\ UNCHANGED <<clock_vars, isr_vars, med_vars, hist_edge_vars, target_vars,
                   n_events, order, l_first, stale_at_call, fresh_at_call, edge_in_call, ins_in_call>>
    /\ UNCHANGED other_vars

\* line 103: median_get_median(u32_rpm) and the return
Line103(u32_rpm) ==
    /\ MedianInsert(u32_rpm)
    /\ ins_in_call' = ins_in_call + 1
    /\ Return(MedianOf(med_buf', med_cnt'))

\* a division by zero is undefined: the core either traps (UsageFault
\* escalated to HardFault) or yields quotient 0
DivideByZero ==
    \/ /\ pc' = "HardFault"
       /\ UNCHANGED <<med_vars, ins_in_call, caller, ret, p_test, torn, pi_vars,
                      wr_in_call, quiet>>
    \/ Line103(0)

\* lines 100-101: the period is read again and divides
Line100 ==
    /\ pc = "L100"
    /\ IF Divisor(g_u32_time_diff) = Zero32
       THEN DivideByZero
       ELSE Line103(RpmOf(Divisor(g_u32_time_diff)))
    /\ UNCHANGED <<clock_vars, isr_vars, hist_edge_vars, target_vars,
                   n_events, order, l_first, stale_at_call, fresh_at_call, edge_in_call>>
    /\ UNCHANGED other_vars

Next ==
    \/ \E d \in Durations : Elapse(d)
    \/ \E pin \in Pins : HAL_GPIO_EXTI_Callback(pin)
    \/ fan_control_init
    \/ \E t \in Targets : fan_change_target_rpm(t)
    \/ fan_get_target_rpm
    \/ fan_update_pi_controller
    \/ fan_get_filtered_rpm
    \/ Line92
    \/ Line96
    \/ Line100

Spec == Init /\ [][Next]_vars

(* ---------------------------------------------------------------------- *)
(* The median filter on its own: any sequence of samples                  *)
(* ---------------------------------------------------------------------- *)
\* median_get_median(sample), as line 103 calls it
median_get_median(sample) ==
    /\ n_events < MaxInserts
    /\ n_events' = n_events + 1
    /\ MedianInsert(sample)
    /\ ret' = MedianOf(med_buf', med_cnt')
    /\ UNCHANGED <<clock_vars, isr_vars, pi_vars, hist_edge_vars, target_vars,
                   pc, caller, order, l_first, p_test,
                   stale_at_call, fresh_at_call, edge_in_call, torn, ins_in_call, wr_in_call, quiet>>
    /\ UNCHANGED other_vars

NextMedian == \E x \in Samples : median_get_median(x)

SpecMedian == Init /\ [][NextMedian]_vars

(* ---------------------------------------------------------------------- *)
(* The conversion of lines 96-101 on its own: any stored period           *)
(* ---------------------------------------------------------------------- *)
speed_convert(p, trap) ==
    /\ conv_p' = p
    /\ conv_rpm' = SampleOf(p, trap)
    /\ conv_half' = SampleOf(Half32(p), trap)
    /\ UNCHANGED not_conv_vars

NextConvert == \E p \in Periods, trap \in BOOLEAN : speed_convert(p, trap)

SpecConvert == Init /\ [][NextConvert]_vars

(* ---------------------------------------------------------------------- *)
(* The integration of lines 120-132 on its own: any run of ticks, each    *)
(* with any target and any filtered reading                               *)
(* ---------------------------------------------------------------------- *)
integrate_tick(target, rpm) ==
    LET err == ErrorOf(target, rpm)
    IN /\ ctl_error' = err
       /\ ctl_esum' = NextEsum(ctl_esum, err, RawOutput(err, ctl_esum))
       /\ UNCHANGED not_ctl_vars

NextIntegral == \E target \in CtlTargets, rpm \in CtlReadings : integrate_tick(target, rpm)

SpecIntegral == Init /\ [][NextIntegral]_vars

(* ---------------------------------------------------------------------- *)
(* Stopwatch: modules/stopwatch/stopwatch.c and the main loop of          *)
(* 08_Stopwatch/src/main.c                                                *)
(* ---------------------------------------------------------------------- *)
\* a < n for a small literal n (n < 2^16)
Lt32(a, n) == a[1] = 0 /\ a[2] < n

\* whole seconds in d milliseconds (2^16 = 65 * 1000 + 536), and the rest
SwSeconds(d) == 65 * d[1] + ((536 * d[1] + d[2]) \div 1000)

SwRestMs(d) == (536 * d[1] + d[2]) % 1000

\* lines 181-185 executed k times from seconds s < 60 and minutes m
SecondsAfter(s, k) == (s + k) % 60

MinutesAfter(m, s, k) == (m + (s + k) \div 60) % 2^16

\* stopwatch_get_current_milliseconds, lines 126-131
stopwatch_get_current_milliseconds == TIM1_CNT \div TIM1_TicksPerMs

\* time passes: uwTick advances; TIM1, once started, counts and overflows
\* once a second. All update interrupts but the last are served on the way,
\* the last is left pending.
SwElapse(d) ==
    /\ sw_events' = sw_events + 1
    /\ ~TIM1_UIF
    /\ sw_ms' = AddT(sw_ms, d)
    /\ IF TIM1_running
       THEN LET ms == (TIM1_CNT \div TIM1_TicksPerMs) + SwRestMs(d)
                n == SwSeconds(d) + (ms \div 1000)
            IN /\ TIM1_CNT' = (ms % 1000) * TIM1_TicksPerMs + (TIM1_CNT % TIM1_TicksPerMs)
               /\ TIM1_UIF' = (n >= 1)
               /\ u16_stopwatch_current_in_seconds' =
                      IF n >= 1 THEN SecondsAfter(u16_stopwatch_current_in_seconds, n - 1)
                      ELSE u16_stopwatch_current_in_seconds
               /\ u16_stopwatch_current_in_minutes' =
                      IF n >= 1 THEN MinutesAfter(u16_stopwatch_current_in_minutes,
                                                  u16_stopwatch_current_in_seconds, n - 1)
                      ELSE u16_stopwatch_current_in_minutes
       ELSE UNCHANGED <<TIM1_CNT, TIM1_UIF, sw_time_vars>>
    /\ UNCHANGED <<sw_button_vars, sw_pc, lcd_lap, sw_hist_vars>>
    /\ UNCHANGED not_sw_vars

\* mutant: the handle is not compared, every timer's event counts a second
HAL_TIM_PeriodElapsedCallback_AnyTimer(htim) ==
    /\ htim = "stopwatch_timer" => TIM1_UIF
    /\ TIM1_UIF' = IF htim = "stopwatch_timer" THEN FALSE ELSE TIM1_UIF
    /\ IF (u16_stopwatch_current_in_seconds + 1) % 2^16 = 60
       THEN /\ u16_stopwatch_current_in_minutes' =
                  (u16_stopwatch_current_in_minutes + 1) % 2^16
            /\ u16_stopwatch_current_in_seconds' = 0
       ELSE /\ u16_stopwatch_current_in_seconds' =
                  (u16_stopwatch_current_in_seconds + 1) % 2^16
            /\ UNCHANGED u16_stopwatch_current_in_minutes
    /\ UNCHANGED <<sw_ms, sw_events, TIM1_CNT, sw_button_vars, sw_pc, lcd_lap, sw_hist_vars>>
    /\ UNCHANGED not_sw_vars

\* HAL_TIM_PeriodElapsedCallback(htim), lines 178-187; for the stopwatch timer
\* it runs on the pending update interrupt of TIM1
HAL_TIM_PeriodElapsedCallback(htim) ==
    /\ htim = "stopwatch_timer" => TIM1_UIF
    /\ IF htim = "stopwatch_timer"
       THEN /\ TIM1_UIF' = FALSE
            /\ IF (u16_stopwatch_current_in_seconds + 1) % 2^16 = 60
               THEN /\ u16_stopwatch_current_in_minutes' =
                          (u16_stopwatch_current_in_minutes + 1) % 2^16
                    /\ u16_stopwatch_current_in_seconds' = 0
               ELSE /\ u16_stopwatch_current_in_seconds' =
                          (u16_stopwatch_current_in_seconds + 1) % 2^16
                    /\ UNCHANGED u16_stopwatch_current_in_minutes
       ELSE UNCHANGED <<TIM1_UIF, sw_time_vars>>
    /\ UNCHANGED <<sw_ms, sw_events, TIM1_CNT, sw_button_vars, sw_pc, lcd_lap, sw_hist_vars>>
    /\ UNCHANGED not_sw_vars

\* line 208: (u32_ticks_now - u32_stopwatch_last_button_tick) < STOPWATCH_DEBOUNCE_MS
DebounceRejects(now, last) == Lt32(Sub32(now, last), STOPWATCH_DEBOUNCE_MS)

\* lines 214-217: the first valid press starts the stopwatch
StartStopwatch ==
    /\ TIM1_running' = TRUE
    /\ bool_stopwatch_timer_status' = TRUE
    /\ UNCHANGED <<sw_lap_vars, bool_stopwatch_lap_added_flag>>

\* mutant: a press on the running stopwatch stops it
StoreLap_Stops ==
    /\ TIM1_running' = FALSE
    /\ bool_stopwatch_timer_status' = FALSE
    /\ UNCHANGED <<sw_lap_vars, bool_stopwatch_lap_added_flag>>

\* mutant: the lap index advances without wrapping
StoreLap_NoWrap ==
    LET u8_index == u8_stopwatch_lap_index
    IN /\ u16_stopwatch_laps_in_minutes' =
              [u16_stopwatch_laps_in_minutes EXCEPT ![u8_index] = u16_stopwatch_current_in_minutes]
       /\ u16_stopwatch_laps_in_seconds' =
              [u16_stopwatch_laps_in_seconds EXCEPT ![u8_index] = u16_stopwatch_current_in_seconds]
       /\ u16_stopwatch_laps_in_milliseconds' =
              [u16_stopwatch_laps_in_milliseconds EXCEPT
                  ![u8_index] = stopwatch_get_current_milliseconds]
       /\ u8_stopwatch_lap_index' = (u8_index + 1) % 2^8
       /\ u16_stopwatch_lap_counter' = (u16_stopwatch_lap_counter + 1) % 2^16
       /\ u8_stopwatch_lap_added_index' = u8_index
       /\ bool_stopwatch_lap_added_flag' = TRUE
       /\ UNCHANGED <<bool_stopwatch_timer_status, TIM1_running>>

\* lines 218-236: a later press stores a lap
StoreLap ==
    LET u8_index == u8_stopwatch_lap_index
    IN /\ u16_stopwatch_laps_in_minutes' =
              [u16_stopwatch_laps_in_minutes EXCEPT ![u8_index] = u16_stopwatch_current_in_minutes]
       /\ u16_stopwatch_laps_in_seconds' =
              [u16_stopwatch_laps_in_seconds EXCEPT ![u8_index] = u16_stopwatch_current_in_seconds]
       /\ u16_stopwatch_laps_in_milliseconds' =
              [u16_stopwatch_laps_in_milliseconds EXCEPT
                  ![u8_index] = stopwatch_get_current_milliseconds]
       /\ u8_stopwatch_lap_index' = ((u8_index + 1) % STOPWATCH_LAPS) % 2^8
       /\ u16_stopwatch_lap_counter' = (u16_stopwatch_lap_counter + 1) % 2^16
       /\ u8_stopwatch_lap_added_index' = u8_index
       /\ bool_stopwatch_lap_added_flag' = TRUE
       /\ UNCHANGED <<bool_stopwatch_timer_status, TIM1_running>>

\* HAL_GPIO_EXTI_Callback(GPIO_Pin) of stopwatch.c, lines 201-238. The update
\* interrupt of TIM1 has the higher priority of the two (lines 118-122) and
\* is served first when pending.
stopwatch_HAL_GPIO_EXTI_Callback(GPIO_Pin) ==
    /\ ~TIM1_UIF
    /\ IF GPIO_Pin = GPIO_PIN_0
       THEN /\ sw_events' = sw_events + 1
            /\ LET u32_ticks_now == Wrap32(sw_ms)
               IN IF DebounceRejects(u32_ticks_now, u32_stopwatch_last_button_tick)
                  THEN UNCHANGED <<sw_button_vars, sw_hist_vars>>
                  ELSE /\ u32_stopwatch_last_button_tick' = u32_ticks_now
                       /\ h_accepted' = h_accepted + 1
                       /\ h_accept_ms' = sw_ms
                       /\ IF ~bool_stopwatch_timer_status
                          THEN StartStopwatch /\ UNCHANGED h_slot_lap
                          ELSE /\ StoreLap
                               /\ h_slot_lap' = [h_slot_lap EXCEPT
                                      ![u8_stopwatch_lap_index] = h_accepted - 1]
       ELSE UNCHANGED <<sw_events, sw_button_vars, sw_hist_vars>>
    /\ UNCHANGED <<sw_ms, TIM1_CNT, TIM1_UIF, sw_time_vars, sw_pc, lcd_lap>>
    /\ UNCHANGED not_sw_vars

\* main.c line 64: the test of the lap flag
stopwatch_main_L64 ==
    /\ sw_pc = "L64"
    /\ sw_pc' = IF bool_stopwatch_lap_added_flag THEN "L65" ELSE "L64"
    /\ UNCHANGED <<sw_ms, sw_events, TIM1_CNT, TIM1_UIF, sw_time_vars, sw_button_vars,
                   lcd_lap, sw_hist_vars>>
    /\ UNCHANGED not_sw_vars

\* main.c line 65: the flag is cleared
stopwatch_main_L65 ==
    /\ sw_pc = "L65"
    /\ sw_pc' = "L73"
    /\ bool_stopwatch_lap_added_flag' = FALSE
    /\ UNCHANGED <<sw_ms, sw_events, TIM1_CNT, TIM1_UIF, sw_time_vars, sw_lap_vars,
                   bool_stopwatch_timer_status, u32_stopwatch_last_button_tick, TIM1_running,
                   lcd_lap, sw_hist_vars>>
    /\ UNCHANGED not_sw_vars

\* main.c lines 68-83: the lap named by u8_stopwatch_lap_added_index is drawn
stopwatch_main_L73 ==
    /\ sw_pc = "L73"
    /\ sw_pc' = "L64"
    /\ LET i == u8_stopwatch_lap_added_index
       IN lcd_lap' = <<i, u16_stopwatch_lap_counter,
                      u16_stopwatch_laps_in_minutes[i],
                      u16_stopwatch_laps_in_seconds[i],
                      u16_stopwatch_laps_in_milliseconds[i] % 100>>
    /\ UNCHANGED <<sw_ms, sw_events, TIM1_CNT, TIM1_UIF, sw_time_vars, sw_button_vars,
                   sw_hist_vars>>
    /\ UNCHANGED not_sw_vars

NextStopwatch ==
    \/ \E d \in SwDurations : sw_events < MaxSwEvents /\ SwElapse(d)
    \/ \E htim \in TimerHandles : HAL_TIM_PeriodElapsedCallback(htim)
    \/ \E pin \in SwPins : sw_events < MaxSwEvents /\ stopwatch_HAL_GPIO_EXTI_Callback(pin)
    \/ stopwatch_main_L64
    \/ stopwatch_main_L65
    \/ stopwatch_main_L73

SpecStopwatch == Init /\ [][NextStopwatch]_vars

\* the interrupts of stopwatch.c on their own, over a run of presses long
\* enough to fill the lap buffer and wrap around
NextLaps ==
    \/ \E d \in LapDurations : sw_events < MaxLapEvents /\ SwElapse(d)
    \/ HAL_TIM_PeriodElapsedCallback("stopwatch_timer")
    \/ sw_events < MaxLapEvents /\ stopwatch_HAL_GPIO_EXTI_Callback(GPIO_PIN_0)

SpecLaps == Init /\ [][NextLaps]_vars

(* ---------------------------------------------------------------------- *)
(* Potentiometers: potis_get_val of modules/potis/potis.c                 *)
(* ---------------------------------------------------------------------- *)
\* lines 113-140: the value returned for poti_num when the channels convert
\* to v6 and v7 and the two polls return st1 and st2
PotisValue(poti_num, v6, v7, st1, st2) ==
    IF poti_num > 2 THEN 0
    ELSE LET u32_poti1_value == IF st1 # "HAL_TIMEOUT" THEN v6 ELSE 0
             u32_poti2_value == IF st2 # "HAL_TIMEOUT" THEN v7 ELSE 0
         IN IF poti_num = POTI_1 THEN u32_poti1_value ELSE u32_poti2_value

\* potis_get_val(poti_num), lines 111-141
potis_get_val(poti_num, v6, v7, st1, st2) ==
    /\ poti_arg' = poti_num
    /\ adc_ch6' = v6 /\ adc_ch7' = v7
    /\ adc_poll1' = st1 /\ adc_poll2' = st2
    /\ potis_ret' = PotisValue(poti_num, v6, v7, st1, st2)
    /\ UNCHANGED not_potis_vars

NextPotis ==
    \E poti_num \in PotiNums, v6, v7 \in AdcValues, st1, st2 \in PollResults :
        potis_get_val(poti_num, v6, v7, st1, st2)

SpecPotis == Init /\ [][NextPotis]_vars

(* ---------------------------------------------------------------------- *)
(* Properties                                                             *)
(* ---------------------------------------------------------------------- *)
\* the step in which fan_get_filtered_rpm returns to its caller
CallReturns == pc \in {"L92", "L96", "L100"} /\ pc' = "main"

\* the step in which fan_update_pi_controller runs to its end
TickReturns == CallReturns /\ caller = "tick"

\* the step in which the display's fan_get_filtered_rpm returns
ReadReturns == CallReturns /\ caller = "read"

\* C1: after any sequence of ticks, target changes and edges the output
\* percentage of the last tick is within [0,100] and the compare register
\* holds a value within [0, Period+1] = [0,400].
C1_OutputInRange ==
    /\ 0 <= f_output /\ f_output <= 100 * OutDen
    /\ 0 <= CCR1 /\ CCR1 <= TIM9_Period + 1

\* C1 witness: a tick whose raw output exceeded 100 % wrote the full period.
C1_Witness == wr_in_call = 1 /\ f_raw > OutMax /\ CCR1 = TIM9_Period + 1

\* C2 (as claimed): a call that begins more than 1000 ms after the last captured
\* edge, with no edge captured during it, returns 0 - on every such call.
C2_StaleReturnsZero ==
    (pc = "main" /\ stale_at_call /\ ~edge_in_call) => ret = 0

\* C3: while no pulse has ever been captured the stored period is 0,
\* fan_get_filtered_rpm returns 0, never reaches the division of line 100,
\* inserts nothing and raises no fault.
C3_NoPulseNoDivision ==
    ~edge_seen => /\ g_u32_time_diff = Zero32
                  /\ ret = 0
                  /\ pc \notin {"L100", "HardFault"}
                  /\ med_cnt = 0

\* C3 witness: a tick has run to its end before any edge, within the timeout.
C3_Witness ==
    ~edge_seen /\ wr_in_call = 1 /\ pc = "main" /\ ~Gt32(ms_clock, StaleTimeoutMs)

\* floor(60 * 1000000 / (2 * p)) for a 32-bit period p, in unbounded arithmetic
TrueRpm(p) ==
    IF p[1] > (RpmNumerator \div PulsesPerRev) \div Half
    THEN 0
    ELSE RpmNumerator \div (PulsesPerRev * (p[1] * Half + p[2]))

\* C4 (as claimed): for every fresh nonzero stored period p the sample fed to
\* the median filter is floor(60 * 1000000 / (2 * p)).
C4_SampleFormula ==
    [][(pc = "L100" /\ pc' = "main" /\ g_u32_time_diff # Zero32)
        => med_buf'[med_idx + 1] = TrueRpm(g_u32_time_diff)]_vars

\* C5: anti-windup under a sustained positive error: a tick whose raw output
\* exceeds 100 leaves integral_error unchanged, so does every following tick
\* with the same error (which saturates again), and Ki * integral_error never
\* exceeds 100.
C5_AntiWindup ==
    [][TickReturns =>
        /\ (f_raw' > OutMax => f_esum' = f_esum)
        /\ ((f_raw > OutMax /\ f_error' = f_error) => (f_esum' = f_esum /\ f_raw' > OutMax))
        /\ KiNum * f_esum' <= OutMax]_vars

\* C5 witness: two ticks in a row saturated high on the same error while the
\* integral was positive.
C5_Witness == sat_ticks = 2 /\ f_esum > 0 /\ f_error > 0

\* C6 (as claimed): every tick executed with target RPM 0 writes a 0 % duty cycle.
C6_TargetZeroOutputZero ==
    [][(TickReturns /\ g_u32_target_rpm = 0) => CCR1' = 0]_vars

\* C6 (amended): every tick executed with target RPM 0 and integral_error 0
\* writes a 0 % duty cycle and leaves integral_error at 0.
C6_IdleOutputZero ==
    [][(TickReturns /\ g_u32_target_rpm = 0 /\ f_esum = 0)
        => (CCR1' = 0 /\ f_output' = 0 /\ f_esum' = 0)]_vars

\* C6 witness: a tick with target 0 and integral 0 saw a spinning fan
\* (negative error) and wrote 0.
C6_Witness ==
    /\ wr_in_call = 1 /\ g_u32_target_rpm = 0 /\ f_esum = 0
    /\ f_error < 0 /\ CCR1 = 0 /\ pc = "main"

\* the median window as it is at power-on
MedianAtPowerOn ==
    med_buf = [i \in 1..MEDIAN_SIZE |-> 0] /\ med_idx = 0 /\ med_cnt = 0 /\ h_last = <<>>

\* C7 (as claimed): after fan_control_init returns, integral_error is 0 and the
\* controller and filter state equal their power-on state.
C7_InitResetsState ==
    [][fan_control_init => (f_esum = 0 /\ g_u32_target_rpm = 0 /\ MedianAtPowerOn)']_vars

\* C8 (as claimed): every tick inserts exactly one sample into the median
\* window and writes the compare register exactly once.
C8_OneInsertOneWrite ==
    [][TickReturns => (ins_in_call' = 1 /\ wr_in_call' = 1)]_vars

\* C8 (amended): every tick that runs to its end writes the compare register
\* exactly once; it inserts exactly one sample into the median window when the
\* signal is fresh and the period read is nonzero, and none (the window is
\* left unchanged) when the signal is stale or the period is 0.
C8_TickEffects ==
    [][TickReturns =>
        /\ wr_in_call' = 1
        /\ (pc = "L100" => (ins_in_call' = 1 /\ med_idx' = MedNextIdx(med_idx)))
        /\ (pc # "L100" => (ins_in_call' = 0 /\ UNCHANGED med_vars))]_vars

\* C8 witness: a tick returned on the stale branch: one write, no insertion,
\* although a nonzero period is stored.
C8_Witness ==
    /\ pc = "main" /\ wr_in_call = 1 /\ ins_in_call = 0
    /\ stale_at_call /\ ~edge_in_call /\ g_u32_time_diff # Zero32

\* C9 (as claimed): fan_get_filtered_rpm called for reading leaves the median
\* window unchanged, and a second call with no tick, edge or clock change
\* since the first returns the same value.
C9_IdempotentRead ==
    [][ReadReturns => (UNCHANGED med_vars /\ (quiet => ret' = ret))]_vars

\* C10 (as claimed): the marker of line 92 and the period of lines 96 and 101
\* are read with no edge interrupt in between, and the period tested in line
\* 96 is the period that divides in line 101.
C10_ConsistentSnapshot ==
    [][/\ ((pc \in {"L96", "L100"} /\ pc' # pc) => ~torn)
       /\ ((pc = "L100" /\ pc' # pc) => p_test = g_u32_time_diff)]_vars

\* C11: the compare value written by each tick is period_length * output / 100
\* truncated to an integer, with period_length = Period + 1 = 400: output 0
\* writes 0 and output 100 writes 400.
C11_CompareFormula ==
    [][TickReturns =>
        /\ TIM9_Period + 1 = 400
        /\ CCR1' * (100 * OutDen) <= 400 * f_output'
        /\ 400 * f_output' < (CCR1' + 1) * (100 * OutDen)
        /\ (f_output' = 0 => CCR1' = 0)
        /\ (f_output' = 100 * OutDen => CCR1' = 400)]_vars

\* C11 witness: a tick wrote a compare value strictly between 0 and 400 that
\* is the truncation of a fractional duty value.
C11_Witness ==
    /\ pc = "main" /\ wr_in_call = 1
    /\ 0 < CCR1 /\ CCR1 < 400
    /\ (400 * f_output) % (100 * OutDen) # 0

\* C12 (as claimed): fan_get_target_rpm returns exactly the value passed to the
\* most recent fan_change_target_rpm (0 before any call), the error of the
\* next tick is computed from exactly that value, and setting the target
\* changes neither the integral nor the duty cycle.
C12_TargetExact ==
    [][/\ (fan_get_target_rpm => target_ret' = h_target)
       /\ (TickReturns => f_error' = h_target - ret')
       /\ ((\E t \in Targets : fan_change_target_rpm(t))
             => UNCHANGED <<f_esum, f_output, CCR1>>)]_vars

\* C12 (amended): as claimed, except that the tick computes its error from the
\* target converted to float: exactly the target up to 2^24, and above that
\* the float nearest to it (a multiple of the float spacing, at most half a
\* spacing away).
C12_TargetFloat ==
    [][/\ (fan_get_target_rpm => target_ret' = h_target)
       /\ (TickReturns =>
             LET used == f_error' + ret'
             IN /\ (h_target <= 2^24 => used = h_target)
                /\ used % Ulp(h_target) = 0
                /\ 2 * (used - h_target) <= Ulp(h_target)
                /\ 2 * (h_target - used) <= Ulp(h_target))
       /\ ((\E t \in Targets : fan_change_target_rpm(t))
             => UNCHANGED <<f_esum, f_output, CCR1>>)]_vars

\* C12 witness: the target 2^24 + 1 was set, read back unchanged, and a tick
\* computed its error from 2^24.
C12_Witness ==
    /\ pc = "main" /\ wr_in_call = 1
    /\ h_target = T_odd /\ target_ret = T_odd
    /\ f_error + ret = T_odd - 1

\* m is a middle element of the samples of seq in sorted order: it is one of
\* them, and at most half of them are smaller and at most half are larger
IsMiddle(m, seq) ==
    /\ \E i \in 1..Len(seq) : seq[i] = m
    /\ Cardinality({i \in 1..Len(seq) : seq[i] < m}) <= Len(seq) \div 2
    /\ Cardinality({i \in 1..Len(seq) : seq[i] > m}) <= Len(seq) \div 2

\* C13: after k >= 1 inserts into the window of size N the median returned is
\* the middle element, in sorted order, of the last min(k, N) samples inserted.
C13_MedianCorrect ==
    n_events >= 1 =>
        /\ Len(h_last) = (IF n_events < MEDIAN_SIZE THEN n_events ELSE MEDIAN_SIZE)
        /\ IsMiddle(ret, h_last)
        /\ (Len(h_last) % 2 = 1 =>
              \A m \in Samples : IsMiddle(m, h_last) => m = ret)

\* C13 witness: the window has wrapped around, holds three different samples,
\* and the median is neither the newest nor the oldest of them.
C13_Witness ==
    /\ n_events > MEDIAN_SIZE
    /\ Cardinality({h_last[i] : i \in 1..Len(h_last)}) = MEDIAN_SIZE
    /\ ret # h_last[1] /\ ret # h_last[Len(h_last)]

\* C14 (as claimed): for every even nonzero period p the RPM computed for p / 2
\* is twice the RPM computed for p.
C14_HalvingDoubles ==
    conv_p # Zero32 => conv_half = 2 * conv_rpm

\* C14 (amended): for every even nonzero period p below 2^31 the RPM computed
\* for p / 2 is twice the RPM computed for p, or one more than that; it is
\* exactly twice when the division 30000000 / p leaves a remainder below p / 2.
\* From 2^31 on the RPM computed for p / 2 is 0.
C14_HalvingDoublesTruncated ==
    conv_p # Zero32 =>
        IF conv_p[1] < 2^15
        THEN /\ conv_half \in {2 * conv_rpm, 2 * conv_rpm + 1}
             /\ (conv_p[1] = 0 =>
                   (conv_half = 2 * conv_rpm
                      <=> 2 * ((RpmNumerator \div PulsesPerRev) % conv_p[2]) < conv_p[2]))
        ELSE conv_half = 0

\* C14 witness: period 28 gives 1071428, period 14 gives 2142857.
C14_Witness ==
    conv_p = <<0, 28>> /\ conv_rpm = 1071428 /\ conv_half = 2 * conv_rpm + 1

\* C15: in a tick where the target RPM equals the filtered RPM (error 0) the
\* integral is unchanged and the output is Ki * integral_error; when the tick
\* before it had error 0 as well, the output is the same as in that tick.
C15_SteadyState ==
    [][(TickReturns /\ g_u32_target_rpm = ret') =>
        /\ f_error' = 0
        /\ f_esum' = f_esum
        /\ f_output' = KiNum * f_esum
        /\ CCR1' = (4 * KiNum * f_esum) \div OutDen
        /\ (zero_ticks >= 1 => f_output' = f_output)]_vars

\* C15 witness: target 5000 and filtered RPM 5000 in two ticks in a row, with
\* a positive integral and so a positive output.
C15_Witness ==
    /\ pc = "main" /\ wr_in_call = 1 /\ zero_ticks = 2
    /\ g_u32_target_rpm = FAN_MAX_RPM /\ ret = FAN_MAX_RPM
    /\ f_esum > 0 /\ f_output = KiNum * f_esum /\ CCR1 > 0

\* a step of the main-loop context inside or between the calls of
\* fan_update_pi_controller, fan_get_filtered_rpm, fan_change_target_rpm and
\* fan_get_target_rpm
MainLoopStep ==
    \/ pc' # pc
    \/ \E t \in Targets : fan_change_target_rpm(t)
    \/ fan_get_target_rpm

\* C16: only the tachometer edge interrupt writes g_u32_ticks_last,
\* g_u32_time_diff and g_u32_cpu_ticks_now: the steps of the four functions
\* called from the main loop leave all three unchanged, and every step that
\* changes one of them is the edge interrupt.
C16_IsrSoleWriter ==
    [][/\ (MainLoopStep => UNCHANGED isr_vars)
       /\ (isr_vars' # isr_vars => HAL_GPIO_EXTI_Callback(FAN_TACHO_OUTPUT))]_vars

\* C16 witness: after an edge stored a period, the target was set and read
\* back and a tick on a fresh signal ran to its end.
C16_Witness ==
    /\ pc = "main" /\ edge_seen /\ g_u32_time_diff # Zero32
    /\ target_ret # 0 /\ ins_in_call = 1 /\ wr_in_call = 1

\* C20: in every tick raw = Kp * error + Ki * integral, with the integral as it
\* was before the tick; if raw is within [0,100] the output is raw and the
\* integral grows by error * Ta, otherwise the output is raw clamped to
\* [0,100] and the integral is unchanged. Target 5000, filtered RPM 0 and
\* integral 0 give raw 200, output 100 and an unchanged integral.
C20_ConditionalIntegration ==
    [][TickReturns =>
        /\ (f_error' > ErrCap => (f_output' = OutMax /\ f_esum' = f_esum))
        /\ (f_error' < -ErrCap => (f_output' = 0 /\ f_esum' = f_esum))
        /\ ((f_error' <= ErrCap /\ f_error' >= -ErrCap) =>
              LET raw == KpNum * EsumDen * f_error' + KiNum * f_esum
              IN /\ f_raw' = raw
                 /\ ((0 <= raw /\ raw <= 100 * OutDen)
                       => (f_output' = raw /\ f_esum' = f_esum + f_error'))
                 /\ (raw > 100 * OutDen => (f_output' = 100 * OutDen /\ f_esum' = f_esum))
                 /\ (raw < 0 => (f_output' = 0 /\ f_esum' = f_esum)))
        /\ ((g_u32_target_rpm = 5000 /\ ret' = 0 /\ f_esum = 0) =>
              (f_raw' = 200 * OutDen /\ f_output' = 100 * OutDen /\ f_esum' = 0))]_vars

\* C20 witness: a tick with target 5000, filtered RPM 0 and integral 0 computed
\* raw 200 and wrote 100 %.
C20_Witness ==
    /\ pc = "main" /\ wr_in_call = 1
    /\ g_u32_target_rpm = 5000 /\ ret = 0 /\ f_esum = 0 /\ f_error = 5000
    /\ f_raw = 200 * OutDen /\ f_output = 100 * OutDen /\ CCR1 = 400

\* a step of the button interrupt of the stopwatch, and one that passes the
\* debounce test of line 208
SwPress == stopwatch_HAL_GPIO_EXTI_Callback(GPIO_PIN_0)

SwAccepted ==
    SwPress /\ ~DebounceRejects(Wrap32(sw_ms), u32_stopwatch_last_button_tick)

\* C17: the first accepted press starts the stopwatch and records no lap;
\* every later accepted press records exactly one lap (the current minutes,
\* seconds and milliseconds), increments the lap counter by one and sets the
\* lap-added flag; the stopwatch never returns to the stopped state.
C17_StartLapProtocol ==
    [][/\ ((SwAccepted /\ h_accepted = 0) =>
             /\ ~bool_stopwatch_timer_status
             /\ bool_stopwatch_timer_status' /\ TIM1_running'
             /\ UNCHANGED <<sw_lap_vars, bool_stopwatch_lap_added_flag>>)
       /\ ((SwAccepted /\ h_accepted >= 1) =>
             LET i == u8_stopwatch_lap_index
             IN /\ u16_stopwatch_laps_in_minutes'[i] = u16_stopwatch_current_in_minutes
                /\ u16_stopwatch_laps_in_seconds'[i] = u16_stopwatch_current_in_seconds
                /\ u16_stopwatch_laps_in_milliseconds'[i] = TIM1_CNT \div 10
                /\ \A j \in (0..(STOPWATCH_LAPS - 1)) \ {i} :
                      /\ u16_stopwatch_laps_in_minutes'[j] = u16_stopwatch_laps_in_minutes[j]
                      /\ u16_stopwatch_laps_in_seconds'[j] = u16_stopwatch_laps_in_seconds[j]
                      /\ u16_stopwatch_laps_in_milliseconds'[j]
                            = u16_stopwatch_laps_in_milliseconds[j]
                /\ u16_stopwatch_lap_counter' = u16_stopwatch_lap_counter + 1
                /\ bool_stopwatch_lap_added_flag')
       /\ (bool_stopwatch_timer_status => bool_stopwatch_timer_status')
       /\ (h_accepted >= 1 => (bool_stopwatch_timer_status /\ TIM1_running))]_vars

\* C17 witness: three presses were accepted: the stopwatch runs, two laps are
\* counted, the second holds a later time than the first, the flag is set.
C17_Witness ==
    /\ h_accepted = 3 /\ bool_stopwatch_timer_status
    /\ u16_stopwatch_lap_counter = 2 /\ u8_stopwatch_lap_index = 2
    /\ bool_stopwatch_lap_added_flag
    /\ u16_stopwatch_laps_in_milliseconds[0] > 0
    /\ u16_stopwatch_laps_in_milliseconds[1] > u16_stopwatch_laps_in_milliseconds[0]

\* C18 (as claimed): once a press has been accepted, a button interrupt less
\* than 50 ms after the last accepted press changes no stopwatch state, and
\* one 50 ms or more after it is accepted: it becomes the last accepted
\* press and stores a lap.
C18_Debounce ==
    [][(SwPress /\ h_accepted >= 1) =>
        LET since == SubT(sw_ms, h_accept_ms)
        IN IF since[1] = 0 /\ since[2] < STOPWATCH_DEBOUNCE_MS
           THEN UNCHANGED <<sw_button_vars, sw_time_vars, TIM1_CNT>>
           ELSE /\ u32_stopwatch_last_button_tick' = Wrap32(sw_ms)
                /\ u16_stopwatch_lap_counter' = u16_stopwatch_lap_counter + 1]_vars

\* C19 (as claimed): potis_get_val returns 0 for every poti_num other than
\* POTI_1 and POTI_2.
C19_InvalidNumberReturnsZero ==
    poti_arg \notin {POTI_1, POTI_2} => potis_ret = 0

\* the step in which the tachometer edge interrupt runs
TachoEdge == HAL_GPIO_EXTI_Callback(FAN_TACHO_OUTPUT)

\* C21 (as claimed): every period the edge interrupt stores, the one of the
\* first edge included, is the wrapped difference between the counter values
\* captured at two consecutive edges: an earlier edge has been captured, and
\* the period is the counter now minus the counter captured then.
C21_PeriodBetweenEdges ==
    [][TachoEdge =>
        /\ edge_seen
        /\ g_u32_time_diff' = Sub32(TIM2_CNT, g_u32_ticks_last)]_vars

\* the timer ticks (microseconds) that have really passed since the last edge,
\* as an unwrapped pair
TrueTicksSinceEdge ==
    LET ms == SubT(ms_clock, edge_ms)
        base == <<ms[1] * 1000 + ((ms[2] * 1000) \div Half), (ms[2] * 1000) % Half>>
    IN IF us_frac >= edge_us
       THEN AddT(base, <<0, us_frac - edge_us>>)
       ELSE SubT(base, <<0, edge_us - us_frac>>)

\* C22: a tachometer edge stores period = (counter_now - previous_timestamp)
\* mod 2^32, previous_timestamp = counter_now and the staleness marker = the
\* millisecond tick; when the counter has run freely since the previous edge
\* and fewer than 2^32 ticks have passed, the stored period is the true
\* number of ticks elapsed, also when the counter rolled over in between.
C22_EdgeStoresElapsed ==
    [][TachoEdge =>
        /\ g_u32_time_diff' = Sub32(TIM2_CNT, g_u32_ticks_last)
        /\ g_u32_ticks_last' = TIM2_CNT
        /\ g_u32_cpu_ticks_now' = HAL_GetTick
        /\ (edge_seen /\ ~init_since_edge /\ TrueTicksSinceEdge[1] < Half)
              => g_u32_time_diff' = TrueTicksSinceEdge]_vars

\* an edge has just stored a period measured across a rollover of the counter
C22_Witness ==
    /\ edge_seen /\ ~init_since_edge
    /\ edge_ms = ms_clock /\ edge_us = us_frac
    /\ g_u32_ticks_last = TIM2_CNT
    /\ g_u32_time_diff = <<32768, 0>>
    /\ TIM2_CNT[1] < 32768

\* C23 (as claimed): whenever fan_get_filtered_rpm executes the division of
\* lines 100-101, the divisor 2 * period evaluated in 32-bit unsigned
\* arithmetic is nonzero, for every period the edge interrupt can store.
C23_DivisorNonzero ==
    [][(pc = "L100" /\ pc' # pc) => Divisor(g_u32_time_diff) # Zero32]_vars

\* the call leaves through the early return of line 92
StaleBranch == pc = "L92" /\ pc' = "main"

\* C24 (as claimed): the staleness branch of fan_get_filtered_rpm is taken
\* only when more than 1000 ms have really elapsed since the most recent
\* edge, whatever the interleaving of edges and millisecond ticks with the
\* call: a signal that was fresh when the call began, with or without an
\* edge captured during the call, is never read as stale.
C24_StaleOnlyWhenStale ==
    [][StaleBranch => (~fresh_at_call \/ Gt32(ElapsedSinceEdge, StaleTimeoutMs))]_vars

\* C25: for every sequence of ticks, targets and filtered readings (positive,
\* zero and negative errors), integral_error stays within [0, 100 / Ki]: it
\* is never negative and Ki * integral_error never exceeds 100.
C25_IntegralBounded ==
    /\ 0 <= ctl_esum
    /\ KiNum * ctl_esum <= OutMax

\* a tick with a negative error has integrated with Ki * integral_error
\* above 98: the integral went down and is still near its upper bound
C25_Witness ==
    /\ ctl_error < 0
    /\ RawOutput(ctl_error, ctl_esum - ctl_error) >= 0
    /\ KiNum * ctl_esum > 98 * OutDen

\* C26: the lap index is always within 0..STOPWATCH_LAPS-1; the k-th recorded
\* lap (k from 0) is stored at slot k mod STOPWATCH_LAPS, which is an empty
\* slot or the slot of the oldest stored lap; the index then advances by one
\* modulo STOPWATCH_LAPS and u8_stopwatch_lap_added_index names the slot just
\* written.
C26_LapBuffer ==
    /\ u8_stopwatch_lap_index \in 0..(STOPWATCH_LAPS - 1)
    /\ [][/\ u8_stopwatch_lap_index' \in 0..(STOPWATCH_LAPS - 1)
          /\ (SwAccepted /\ h_accepted >= 1) =>
                LET k == h_accepted - 1
                    slot == k % STOPWATCH_LAPS
                IN /\ u8_stopwatch_lap_index = slot
                   /\ u16_stopwatch_laps_in_minutes'[slot] = u16_stopwatch_current_in_minutes
                   /\ u16_stopwatch_laps_in_seconds'[slot] = u16_stopwatch_current_in_seconds
                   /\ u16_stopwatch_laps_in_milliseconds'[slot]
                         = stopwatch_get_current_milliseconds
                   /\ \A j \in 0..(STOPWATCH_LAPS - 1) : h_slot_lap[slot] <= h_slot_lap[j]
                   /\ h_slot_lap'[slot] = k
                   /\ u8_stopwatch_lap_index' = (slot + 1) % STOPWATCH_LAPS
                   /\ u8_stopwatch_lap_added_index' = slot]_vars

\* eleven laps were recorded: lap 10 has taken slot 0 from lap 0, the oldest,
\* and the index has wrapped to 1
C26_Witness ==
    /\ h_accepted = STOPWATCH_LAPS + 2
    /\ h_slot_lap[0] = STOPWATCH_LAPS
    /\ h_slot_lap[1] = 1
    /\ u8_stopwatch_lap_index = 1
    /\ u8_stopwatch_lap_added_index = 0
    /\ u16_stopwatch_laps_in_milliseconds[0] + 1000 * u16_stopwatch_laps_in_seconds[0]
          > u16_stopwatch_laps_in_milliseconds[9] + 1000 * u16_stopwatch_laps_in_seconds[9]

\* a pending period-elapsed event of the stopwatch timer is served
SwSecondServed == TIM1_UIF /\ ~TIM1_UIF'

\* C27 (as claimed): each period-elapsed event of the stopwatch timer advances
\* the time by one second; the seconds value is always within 0..59, and
\* minutes increase by one exactly when seconds roll over from 59 to 0;
\* events of any other timer handle change nothing.
C27_TimeBase ==
    /\ u16_stopwatch_current_in_seconds \in 0..59
    /\ [][/\ u16_stopwatch_current_in_seconds' \in 0..59
          /\ SwSecondServed =>
                IF u16_stopwatch_current_in_seconds = 59
                THEN /\ u16_stopwatch_current_in_seconds' = 0
                     /\ u16_stopwatch_current_in_minutes' = u16_stopwatch_current_in_minutes + 1
                ELSE /\ u16_stopwatch_current_in_seconds' = u16_stopwatch_current_in_seconds + 1
                     /\ u16_stopwatch_current_in_minutes' = u16_stopwatch_current_in_minutes
          /\ (~SwSecondServed /\ sw_ms' = sw_ms) => UNCHANGED sw_time_vars]_vars

\* C27 (amended): as claimed, with the minutes a 16-bit counter: when seconds
\* roll over from 59 to 0 the minutes increase by one modulo 2^16, so the
\* event after 65535 minutes and 59 seconds sets both to 0.
C27_TimeBaseMod16 ==
    /\ u16_stopwatch_current_in_seconds \in 0..59
    /\ [][/\ u16_stopwatch_current_in_seconds' \in 0..59
          /\ SwSecondServed =>
                IF u16_stopwatch_current_in_seconds = 59
                THEN /\ u16_stopwatch_current_in_seconds' = 0
                     /\ u16_stopwatch_current_in_minutes'
                           = (u16_stopwatch_current_in_minutes + 1) % 2^16
                ELSE /\ u16_stopwatch_current_in_seconds' = u16_stopwatch_current_in_seconds + 1
                     /\ u16_stopwatch_current_in_minutes' = u16_stopwatch_current_in_minutes
          /\ (~SwSecondServed /\ sw_ms' = sw_ms) => UNCHANGED sw_time_vars]_vars

\* the stopwatch has run for 65536 minutes: the last event took the seconds
\* from 59 to 0 and the minutes from 65535 to 0
C27_Witness ==
    /\ TIM1_running /\ ~TIM1_UIF
    /\ u16_stopwatch_current_in_seconds = 0
    /\ u16_stopwatch_current_in_minutes = 0
    /\ SubT(sw_ms, h_accept_ms) = AddT(S_45d, S_1s)

\* C28 (as claimed): every lap recorded by the button interrupt is reported
\* to the main loop and displayed, whatever the interleaving: when a further
\* lap is stored, and the notification of the lap before it is overwritten,
\* the main loop has displayed that lap - its slot, with the lap count it
\* was recorded with.
C28_EveryLapReported ==
    [][(SwAccepted /\ u16_stopwatch_lap_counter >= 1) =>
        /\ lcd_lap # <<>>
        /\ lcd_lap[1] = u8_stopwatch_lap_added_index
        /\ lcd_lap[2] = u16_stopwatch_lap_counter]_vars

====
